---- MODULE Spec2Model ----
(***************************************************************************)
(* State-machine model of the streaming chat frontend (App, InputForm,     *)
(* ChatMessagesView): backend health poll, session bootstrap with retry    *)
(* and backoff, the run request, the SSE read loop and the reducer that    *)
(* folds frames into the transcript.                                       *)
(*                                                                         *)
(* Text is modelled as sequences of symbols.  In a response body a symbol  *)
(* is one character ("d", ":", "\n", ...) or one JSON token of a frame     *)
(* payload; in a message content a symbol is a word, a blank " " or a      *)
(* markdown image "IMG".                                                   *)
(***************************************************************************)
EXTENDS Integers, Sequences, FiniteSets, TLC

VARIABLES
    userId, sessionId, appName,        \* useState: the stored session triple
    messages,                          \* useState: the transcript
    displayData,                       \* useState
    isLoading,                         \* useState
    messageEvents,                     \* useState: Map<id, ProcessedEvent[]>
    isBackendReady, isCheckingBackend, \* useState
    currentAgentRef, accumulatedTextRef, \* useRef, shared by all turns
    pollPc, pollI,                     \* position of checkBackend and its loop counter i
    calls,                             \* the handleSubmit invocations of this page
    ncalls,                            \* how many handleSubmit invocations were started
    now,                               \* the last reading of Date.now()
    unloading,                         \* window.location.reload() was called and the
                                       \* document is not replaced yet
    frontend,                          \* which frontend the browser has loaded
    activeSessionId,                   \* frontend-v2 middleware/query: module variable
    chatMessages,                      \* frontend-v2 ChatContext: useState messages
    route,                             \* frontend-v2: the route the router renders
    homeLoading,                       \* frontend-v2 HomePage: useState loading
    chatLoading,                       \* frontend-v2 ChatPage: useState loading
    widgets,                           \* frontend-v2 ChatPage: useState widgets
    ccSessionId, ccIsLoading, ccMessages, \* ChatContainer: useState sessionId,
                                       \* isLoading, messages
    sends,                             \* the requests to /query of this page
    nsends,                            \* how many requests to /query were started
    received                           \* the session_id of each answer of /query,
                                       \* in the order of arrival

vars == <<userId, sessionId, appName, messages, displayData, isLoading,
          messageEvents, isBackendReady, isCheckingBackend, currentAgentRef,
          accumulatedTextRef, pollPc, pollI, calls, ncalls, now, unloading,
          frontend, activeSessionId, chatMessages, route, homeLoading,
          chatLoading, widgets, ccSessionId, ccIsLoading, ccMessages,
          sends, nsends, received>>

\* the state of the /query frontends (frontend-v2 and ChatContainer)
V2Vars == <<activeSessionId, chatMessages, route, homeLoading, chatLoading, widgets>>
ContainerVars == <<ccSessionId, ccIsLoading, ccMessages>>
QueryVars == <<frontend, V2Vars, ContainerVars, sends, nsends, received>>

-----------------------------------------------------------------------------
(* Bounds of the model *)

MaxCalls == 2        \* handleSubmit invocations per page load
MaxClock == 1        \* largest reading of the id clock
MaxSends == 3        \* requests to /query per page load

(* Program constants *)

maxRetries == 10
maxDuration == 120000
BaseDelay == 1000
MaxDelay == 5000
MaxProbes == 60

Null == "null"
Undefined == "undefined"

-----------------------------------------------------------------------------
(* Strings *)

Whitespace == {" ", "\n", "\r", "\t"}

Min(a, b) == IF a < b THEN a ELSE b

RECURSIVE Pow2(_)
Pow2(n) == IF n = 0 THEN 1 ELSE 2 * Pow2(n - 1)

RECURSIVE TrimStart(_)
TrimStart(s) ==
    IF s = <<>> THEN s
    ELSE IF Head(s) \in Whitespace THEN TrimStart(Tail(s)) ELSE s

RECURSIVE TrimEnd(_)
TrimEnd(s) ==
    IF s = <<>> THEN s
    ELSE IF s[Len(s)] \in Whitespace THEN TrimEnd(SubSeq(s, 1, Len(s) - 1)) ELSE s

\* String.prototype.trim
Trim(s) == TrimEnd(TrimStart(s))

RECURSIVE IndexFrom(_, _, _)
IndexFrom(s, ch, i) ==
    IF i > Len(s) THEN -1
    ELSE IF s[i] = ch THEN i - 1
    ELSE IndexFrom(s, ch, i + 1)

\* String.prototype.indexOf for a one-character needle: 0-based, -1 when absent
IndexOf(s, ch) == IndexFrom(s, ch, 1)

\* String.prototype.slice(a, b) and slice(a), 0-based
Slice(s, a, b) == SubSeq(s, a + 1, b)
SliceFrom(s, a) == SubSeq(s, a + 1, Len(s))

StartsWith(s, p) == Len(s) >= Len(p) /\ SubSeq(s, 1, Len(p)) = p

DataPrefix == <<"d", "a", "t", "a", ":">>

-----------------------------------------------------------------------------
(* Frame payloads.  A payload is a sequence of JSON tokens: "{" and "}",    *)
(* author members ("@p", "@c", "@"), text parts of content.parts, the      *)
(* member "parts!" (content.parts present but not an array), or the        *)
(* literal "null".                                                         *)

AuthorTokens == {"@p", "@c", "@"}
TextTokens == {"Here", "are options", "IMG", "_sp", "_empty"}
MemberTokens == AuthorTokens \cup TextTokens \cup {"parts!"}

AuthorOf(tok) ==
    CASE tok = "@p" -> "product_agent"
      [] tok = "@c" -> "cart_agent"
      [] OTHER -> ""

\* the string value of a text part, as content symbols
TextOf(tok) ==
    CASE tok = "Here" -> <<"Here">>
      [] tok = "are options" -> <<"are", " ", "options">>
      [] tok = "IMG" -> <<"IMG">>
      [] tok = "_sp" -> <<" ">>
      [] OTHER -> <<>>

RECURSIVE SelectTokens(_, _)
SelectTokens(s, set) ==
    IF s = <<>> THEN <<>>
    ELSE IF Head(s) \in set THEN <<Head(s)>> \o SelectTokens(Tail(s), set)
    ELSE SelectTokens(Tail(s), set)

\* JSON.parse: insignificant whitespace is skipped; anything but the literal
\* null or a closed object of known members is a SyntaxError (ok = FALSE)
JSONparse(data) ==
    LET t == SelectTokens(data, {x \in {data[i] : i \in 1..Len(data)} : x \notin Whitespace})
        wellFormed == /\ Len(t) >= 2
                      /\ t[1] = "{"
                      /\ t[Len(t)] = "}"
                      /\ \A i \in 2..(Len(t) - 1) : t[i] \in MemberTokens
        inner == SubSeq(t, 2, Len(t) - 1)
        authors == SelectTokens(inner, AuthorTokens)
    IN  IF t = <<"null">>
        THEN [ok |-> TRUE, isNull |-> TRUE, author |-> Undefined,
              parts |-> <<>>, partsIsArray |-> FALSE]
        ELSE IF wellFormed
        THEN [ok |-> TRUE, isNull |-> FALSE,
              author |-> IF authors = <<>> THEN Undefined
                         ELSE AuthorOf(authors[Len(authors)]),
              parts |-> SelectTokens(inner, TextTokens),
              partsIsArray |-> ~(\E i \in 1..Len(inner) : inner[i] = "parts!")]
        ELSE [ok |-> FALSE, isNull |-> FALSE, author |-> Undefined,
              parts |-> <<>>, partsIsArray |-> FALSE]

RECURSIVE TruthyTexts(_)
\* parts.filter(p => p.text).map(p => p.text)
TruthyTexts(parts) ==
    IF parts = <<>> THEN <<>>
    ELSE IF TextOf(Head(parts)) # <<>>
         THEN <<TextOf(Head(parts))>> \o TruthyTexts(Tail(parts))
         ELSE TruthyTexts(Tail(parts))

\* JSON.parse throws on the text, or the extraction throws a TypeError on the
\* parsed value (parsed is null, content.parts has no filter method)
Throws(data) ==
    LET parsed == JSONparse(data)
    IN  ~parsed.ok \/ parsed.isNull \/ ~parsed.partsIsArray

\* variant: no try/catch around the parse and the extraction
extractDataFromSSE_NoCatch(data) ==
    LET parsed == JSONparse(data)
    IN  IF Throws(data)
        THEN [textParts |-> <<>>, agent |-> "", threw |-> TRUE]
        ELSE [textParts |-> TruthyTexts(parsed.parts),
              agent |-> IF parsed.author = Undefined THEN "" ELSE parsed.author,
              threw |-> FALSE]

\* threw: an exception leaves the function (never: the try spans the body)
extractDataFromSSE(data) ==
    LET parsed == JSONparse(data)
    IN  IF Throws(data)
        THEN [textParts |-> <<>>, agent |-> "", threw |-> FALSE]   \* the catch branch
        ELSE [textParts |-> TruthyTexts(parsed.parts),
              agent |-> IF parsed.author = Undefined THEN "" ELSE parsed.author,
              threw |-> FALSE]

getEventTitle(agentName) ==
    CASE agentName = "product_agent" -> "Searching for Products"
      [] agentName = "cart_agent" -> "Managing Shopping Cart"
      [] agentName = "shopper_agent" -> "Shopping Assistant"
      [] OTHER -> IF agentName = "" THEN "Processing (Unknown Agent)"
                  ELSE "Processing (other)"

RECURSIVE JoinSp(_)
\* Array.prototype.join(" ")
JoinSp(parts) ==
    IF parts = <<>> THEN <<>>
    ELSE IF Len(parts) = 1 THEN parts[1]
    ELSE parts[1] \o <<" ">> \o JoinSp(Tail(parts))

\* variant: the separating blank is forgotten
AppendFragment_NoSeparator(acc, text) == acc \o text

\* accumulatedTextRef.current += text + " "
AppendFragment(acc, text) == acc \o text \o <<" ">>

\* variant: the updated message is moved to the end of the transcript
UpdateMessage_MovesToEnd(msgs, aiMessageId, content, cur) ==
    SelectSeq(msgs, LAMBDA m : m.id # aiMessageId)
    \o [i \in 1..Len(SelectSeq(msgs, LAMBDA m : m.id = aiMessageId)) |->
          [SelectSeq(msgs, LAMBDA m : m.id = aiMessageId)[i] EXCEPT !.content = content]]

\* prev.map(msg => msg.id === aiMessageId ? {...msg, content, agent: cur || msg.agent} : msg)
UpdateMessage(msgs, aiMessageId, content, cur) ==
    [i \in 1..Len(msgs) |->
        IF msgs[i].id = aiMessageId
        THEN [msgs[i] EXCEPT !.content = content,
                             !.agent = IF cur # "" THEN cur ELSE msgs[i].agent]
        ELSE msgs[i]]

\* new Map(prev).set(id, [...(prev.get(id) || []), ev])
MapAppend(map, id, ev) ==
    IF id \in DOMAIN map
    THEN [map EXCEPT ![id] = Append(map[id], ev)]
    ELSE (id :> <<ev>>) @@ map

(* The part of the program state a frame can touch, as one record st:      *)
(* agentRef, accRef, messages, events, display; threw tells that an        *)
(* exception is propagating out of the read loop.                          *)

RECURSIVE ApplyParts(_, _, _)
\* the for loop over textParts
ApplyParts(st, textParts, aiMessageId) ==
    IF textParts = <<>> THEN st
    ELSE LET acc == AppendFragment(st.accRef, Head(textParts))
             st1 == [st EXCEPT !.accRef = acc,
                               !.messages = UpdateMessage(st.messages, aiMessageId,
                                                          Trim(acc), st.agentRef),
                               !.display = Trim(acc)]
         IN  ApplyParts(st1, Tail(textParts), aiMessageId)

\* variant: the author of a frame is tracked only when the frame has text
TrackAgent_TextFramesOnly(cur, ex) ==
    IF Len(ex.textParts) > 0 /\ ex.agent # "" THEN ex.agent ELSE cur

\* if (agent && agent !== currentAgentRef.current) currentAgentRef.current = agent
TrackAgent(cur, ex) ==
    IF ex.agent # "" /\ ex.agent # cur THEN ex.agent ELSE cur

processSseEventData(st, jsonData, aiMessageId) ==
    LET ex == extractDataFromSSE(jsonData)
        st1 == [st EXCEPT !.agentRef = TrackAgent(st.agentRef, ex)]
    IN  IF ex.threw THEN [st EXCEPT !.threw = TRUE]
        ELSE IF Len(ex.textParts) > 0
        THEN ApplyParts(
                 [st1 EXCEPT !.events = MapAppend(st1.events, aiMessageId,
                     [title |-> getEventTitle(ex.agent),
                      data |-> [type |-> "text", content |-> JoinSp(ex.textParts)]])],
                 ex.textParts, aiMessageId)
        ELSE st1

\* variant: the buffer is emptied once a line was taken from it
RestOfBuffer_DropsTail(buffer, line) == <<>>

\* buffer = buffer.slice(line + 1)
RestOfBuffer(buffer, line) == SliceFrom(buffer, line + 1)

\* variant: the rest of the line is handed over as it is
FrameData_Untrimmed(currentLine) == SliceFrom(currentLine, 5)

\* const data = currentLine.substring(5).trim()
FrameData(currentLine) == Trim(SliceFrom(currentLine, 5))

RECURSIVE DrainBuffer(_, _, _, _)
\* while ((line = buffer.indexOf('\n')) >= 0) { ... }: returns the buffer left,
\* the payloads handed to processSseEventData and the state after them
DrainBuffer(st, buffer, dispatched, aiMessageId) ==
    LET line == IndexOf(buffer, "\n")
    IN  IF line >= 0 /\ ~st.threw
        THEN LET currentLine == Trim(Slice(buffer, 0, line))
                 rest == RestOfBuffer(buffer, line)
             IN  IF StartsWith(currentLine, DataPrefix)
                 THEN LET data == FrameData(currentLine)
                      IN  DrainBuffer(processSseEventData(st, data, aiMessageId),
                                      rest, Append(dispatched, data), aiMessageId)
                 ELSE DrainBuffer(st, rest, dispatched, aiMessageId)
        ELSE [st |-> st, buffer |-> buffer, dispatched |-> dispatched]

-----------------------------------------------------------------------------
(* Environment: what the backend and the user can supply *)

\* the body of a successful session-creation response { userId, id, appName }:
\* the session is named by the uuid of the request, which no other bootstrap
\* shares; c is the handleSubmit invocation that created it
SessionResponse(c) == [userId |-> "u_999", id |-> "session" \o ToString(c), appName |-> "app"]

\* how long one createSession round trip can take, in ms
AttemptDurations == {1, 60000}

\* what the user can type into the textarea
Inputs == {<<" ", "shoes">>, <<" ">>}

\* `Add item ${alt} to cart`
SyntheticText == <<"Add", " ", "item", " ", "bag", " ", "to", " ", "cart">>

Line(payload) == DataPrefix \o <<" ">> \o payload \o <<"\n">>

\* response bodies of /api/run_sse
Short1 == Line(<<"{", "@p", "Here", "}">>) \o DataPrefix \o <<"{", "are options", "}", "\n">>
Short2 == DataPrefix \o <<"{", "IMG", "}", "\n">> \o DataPrefix \o <<"{", "@c", "Here", "}", "\n">>
Bodies == {Short1, Short2}

\* the same with comment lines, CRLF line ends, frames that do not parse,
\* blank, empty and author-only parts, and unterminated last lines
Body1 == Line(<<"{", "@p", "Here", "}">>) \o DataPrefix \o <<"{", "are options", "}", "\n">>
Body2 == <<":", "\r", "\n">>
         \o DataPrefix \o <<"{", "Here", "\r", "\n">>
         \o DataPrefix \o <<"{", "IMG", "}", "\n">>
Body3 == <<"\n">>
         \o DataPrefix \o <<"{", "@c", "_sp", "Here", "}", "\n">>
         \o DataPrefix \o <<"{", "Here", "}">>
Body4 == DataPrefix \o <<"{", "parts!", "}", "\n">>
         \o DataPrefix \o <<"null", "\n">>
         \o DataPrefix \o <<"{", "_empty", "}", "\n">>
\* a line of another SSE field, a frame that names the author and has no
\* text, an indented frame without author, an author after the last text
Body5 == <<"i", "d", ":", "\n">>
         \o DataPrefix \o <<"{", "@p", "}", "\n">>
         \o <<" ">> \o DataPrefix \o <<"{", "Here", "}", "\n">>
         \o DataPrefix \o <<"{", "@c", "}", "\n">>
RichBodies == {Body1, Body2, Body3, Body4, Body5}

-----------------------------------------------------------------------------
(* handleSubmit invocations *)

CallIds == 1..MaxCalls

NoId == [ms |-> -1, sfx |-> "none"]

NoRequest ==
    [appName |-> Null, userId |-> Null, sessionId |-> Null, text |-> <<>>,
     streaming |-> FALSE]

IdleCall ==
    [pc |-> "idle", query |-> <<>>,
     currentUserId |-> Null, currentSessionId |-> Null, currentAppName |-> Null,
     attempt |-> 0, elapsed |-> 0, delay |-> 0,
     lastError |-> Undefined, error |-> Undefined,
     aiMessageId |-> NoId, request |-> NoRequest,
     body |-> <<>>, pos |-> 0, buffer |-> <<>>, dispatched |-> <<>>]

\* a returned invocation: its locals are out of scope
Returned(rec, err) ==
    [IdleCall EXCEPT !.pc = "done", !.aiMessageId = rec.aiMessageId, !.error = err]

InFlight(c) == calls[c].pc \in {"attempt", "wait", "fetch", "read"}

\* variant: the session is created on every submission
NeedsSession_Always(u, s, a) == TRUE

\* if (!currentSessionId || !currentUserId || !currentAppName)
NeedsSession(u, s, a) == s = Null \/ u = Null \/ a = Null

\* variant: the cap is forgotten
BackoffDelay_NoCap(attempt) == BaseDelay * Pow2(attempt)

\* Math.min(1000 * Math.pow(2, attempt), 5000)
BackoffDelay(attempt) == Min(BaseDelay * Pow2(attempt), MaxDelay)

\* Date.now() - startTime, kept exact up to the ceiling and saturated above it
Later(elapsed, d) == Min(elapsed + d, maxDuration + 1)

\* variant: the request is built from the state of the render that created
\* the callback instead of the locals
RunRequest_FromState(rec) ==
    [appName |-> appName, userId |-> userId,
     sessionId |-> sessionId, text |-> rec.query, streaming |-> FALSE]

\* JSON body of the run request
RunRequest(rec) ==
    [appName |-> rec.currentAppName, userId |-> rec.currentUserId,
     sessionId |-> rec.currentSessionId, text |-> rec.query, streaming |-> FALSE]

\* Date.now(): a reading is the last reading or one millisecond more
ClockReadings(last) == {t \in {last, last + 1} : t <= MaxClock}

\* Date.now() in a submission made on a transcript that is already there:
\* the user acts at least a millisecond after the last reading
LaterReadings(last) == {t \in {last + 1} : t <= MaxClock}

HumanMessage(query, t) ==
    [type |-> "human", content |-> query, id |-> [ms |-> t, sfx |-> ""],
     agent |-> Undefined]

\* variant: the ai message is created with a placeholder text
OpenAiMessage_Placeholder(t) ==
    [type |-> "ai", content |-> <<"...">>, id |-> [ms |-> t, sfx |-> "_ai"], agent |-> ""]

OpenAiMessage(t) ==
    [type |-> "ai", content |-> <<>>, id |-> [ms |-> t, sfx |-> "_ai"], agent |-> ""]

ErrorMessage(text, t) ==
    [type |-> "ai", content |-> <<"Error:", " ", text>>,
     id |-> [ms |-> t, sfx |-> "_ai_error"], agent |-> Undefined]

\* lines 541-560 of handleSubmit: append the pair of messages, reset the refs
\* and issue the run request; rec holds the locals of invocation c, readings
\* is what the first Date.now() can return
BeginTurn(c, rec, readings) ==
    /\ \E t1 \in readings : \E t2 \in ClockReadings(t1) :
          /\ messages' = messages \o <<HumanMessage(rec.query, t1), OpenAiMessage(t2)>>
          /\ calls' = [calls EXCEPT ![c] = [rec EXCEPT !.pc = "fetch",
                                                      !.aiMessageId = OpenAiMessage(t2).id,
                                                      !.request = RunRequest(rec)]]
          /\ now' = t2
    /\ currentAgentRef' = ""
    /\ accumulatedTextRef' = <<>>

\* handleSubmit up to its first await
handleSubmit(query) ==
    /\ ncalls < MaxCalls
    /\ Trim(query) # <<>>
    /\ LET c == ncalls + 1
           rec == [IdleCall EXCEPT !.query = query,
                                   !.currentUserId = userId,
                                   !.currentSessionId = sessionId,
                                   !.currentAppName = appName]
       IN  /\ ncalls' = c
           /\ isLoading' = TRUE
           /\ IF NeedsSession(rec.currentUserId, rec.currentSessionId, rec.currentAppName)
              THEN \* retryWithBackoff: attempt 0 passes the ceiling check and calls fn()
                   /\ calls' = [calls EXCEPT ![c] = [rec EXCEPT !.pc = "attempt"]]
                   /\ UNCHANGED <<messages, currentAgentRef, accumulatedTextRef, now>>
              ELSE BeginTurn(c, rec, LaterReadings(now))
    /\ UNCHANGED <<userId, sessionId, appName, displayData, messageEvents,
                   isBackendReady, isCheckingBackend, pollPc, pollI, unloading>>
    /\ UNCHANGED QueryVars

\* the conditional chain of the render
Screen ==
    IF isCheckingBackend THEN "connecting"
    ELSE IF ~isBackendReady THEN "unavailable"
    ELSE IF Len(messages) = 0 THEN "welcome"
    ELSE "chat"

\* variant: the welcome screen and the chat are rendered whatever the poll says
ChatUiShown_NoGate == TRUE

\* which screen App renders
ChatUiShown == ~isCheckingBackend /\ isBackendReady

\* InputForm.handleSubmit, reached through the form of the welcome screen
WelcomeSubmit ==
    /\ ChatUiShown /\ messages = <<>> /\ ~unloading
    /\ \E inputValue \in Inputs :
          /\ Trim(inputValue) # <<>> /\ ~isLoading
          /\ handleSubmit(Trim(inputValue))

\* InputForm.handleSubmit, reached through the form of ChatMessagesView
ChatSubmit ==
    /\ ChatUiShown /\ messages # <<>> /\ ~unloading
    /\ \E inputValue \in Inputs :
          /\ Trim(inputValue) # <<>> /\ ~isLoading
          /\ handleSubmit(Trim(inputValue))

HasImage(content) == \E i \in 1..Len(content) : content[i] = "IMG"

\* a click on a rendered image card: dispatches "chat-message", which
\* handleSyntheticMessage passes to onSubmit
SyntheticMessage ==
    /\ ChatUiShown /\ messages # <<>> /\ ~unloading
    /\ \E i \in 1..Len(messages) : HasImage(messages[i].content)
    /\ handleSubmit(SyntheticText)

-----------------------------------------------------------------------------
(* Session bootstrap: retryWithBackoff(createSession) *)

StreamVars == <<displayData, messageEvents>>
\* the health poll and the life cycle of the document
PollVars == <<isBackendReady, isCheckingBackend, pollPc, pollI, unloading>>

\* createSession resolves: handleSubmit stores the triple and goes on
AttemptSucceeds(c) ==
    /\ calls[c].pc = "attempt"
    /\ LET data == SessionResponse(c)
       IN LET rec == [calls[c] EXCEPT !.currentUserId = data.userId,
                                      !.currentSessionId = data.id,
                                      !.currentAppName = data.appName,
                                      !.attempt = 0, !.elapsed = 0,
                                      !.lastError = Undefined]
          IN  /\ userId' = rec.currentUserId
              /\ sessionId' = rec.currentSessionId
              /\ appName' = rec.currentAppName
              /\ BeginTurn(c, rec, ClockReadings(now))
    /\ UNCHANGED <<isLoading, ncalls>>
    /\ UNCHANGED StreamVars /\ UNCHANGED PollVars /\ UNCHANGED QueryVars

\* createSession throws (non-2xx answer or network failure): the catch block
\* records the error and starts the backoff wait
AttemptFails(c) ==
    /\ calls[c].pc = "attempt"
    /\ \E d \in AttemptDurations, err \in {"Failed to create session", "Failed to fetch"} :
          calls' = [calls EXCEPT ![c] =
                       [@ EXCEPT !.pc = "wait",
                                 !.lastError = err,
                                 !.delay = BackoffDelay(calls[c].attempt),
                                 !.elapsed = Later(@, d)]]
    /\ UNCHANGED <<userId, sessionId, appName, messages, isLoading, currentAgentRef,
                   accumulatedTextRef, ncalls, now>>
    /\ UNCHANGED StreamVars /\ UNCHANGED PollVars /\ UNCHANGED QueryVars

TimeoutError == "Retry timeout after 120000ms"

\* variant: exhaustion raises the timeout error
ExhaustedError_Timeout(rec) == TimeoutError

\* throw lastError!
ExhaustedError(rec) == rec.lastError

\* variant: the ceiling is never looked at
CeilingCrossed_Never(elapsed) == FALSE

\* if (Date.now() - startTime > maxDuration)
CeilingCrossed(elapsed) == elapsed > maxDuration

\* the setTimeout of the catch block fires: attempt++ and the loop head
BackoffElapsed(c) ==
    /\ calls[c].pc = "wait"
    /\ LET rec == [calls[c] EXCEPT !.attempt = @ + 1,
                                   !.elapsed = Later(@, calls[c].delay),
                                   !.delay = 0]
       IN  IF rec.attempt < maxRetries
           THEN IF CeilingCrossed(rec.elapsed)
                THEN calls' = [calls EXCEPT ![c] =
                            [rec EXCEPT !.pc = "rejected", !.error = TimeoutError]]
                ELSE calls' = [calls EXCEPT ![c] = [rec EXCEPT !.pc = "attempt"]]
           ELSE \* throw lastError!
                calls' = [calls EXCEPT ![c] =
                            [rec EXCEPT !.pc = "rejected", !.error = ExhaustedError(rec)]]
    /\ UNCHANGED <<userId, sessionId, appName, messages, isLoading, currentAgentRef,
                   accumulatedTextRef, ncalls, now>>
    /\ UNCHANGED StreamVars /\ UNCHANGED PollVars /\ UNCHANGED QueryVars

-----------------------------------------------------------------------------
(* The run request and the SSE read loop *)

\* fetch resolves with a 2xx answer that has a body
FetchResolves(c, bodies) ==
    /\ calls[c].pc = "fetch"
    /\ \E b \in bodies :
          calls' = [calls EXCEPT ![c] = [@ EXCEPT !.pc = "read", !.body = b]]
    /\ UNCHANGED <<userId, sessionId, appName, messages, isLoading, currentAgentRef,
                   accumulatedTextRef, ncalls, now>>
    /\ UNCHANGED StreamVars /\ UNCHANGED PollVars /\ UNCHANGED QueryVars

FetchOk(c) == FetchResolves(c, Bodies)

\* the same with the longer bodies
FetchOkRich(c) == FetchResolves(c, RichBodies)

\* fetch resolves with a 2xx answer without body: reader is undefined
FetchOkNoBody(c) ==
    /\ calls[c].pc = "fetch"
    /\ calls' = [calls EXCEPT ![c] = Returned(@, Undefined)]
    /\ isLoading' = FALSE
    /\ UNCHANGED <<userId, sessionId, appName, messages, currentAgentRef,
                   accumulatedTextRef, ncalls, now>>
    /\ UNCHANGED StreamVars /\ UNCHANGED PollVars /\ UNCHANGED QueryVars

\* variant: the error text is written into the open message of the turn
CatchError_IntoOpenMessage(c, text) ==
    /\ messages' = UpdateMessage(messages, calls[c].aiMessageId,
                                 <<"Error:", " ", text>>, "")
    /\ calls' = [calls EXCEPT ![c] = Returned(@, text)]
    /\ isLoading' = FALSE
    /\ UNCHANGED <<userId, sessionId, appName, currentAgentRef,
                   accumulatedTextRef, ncalls, now>>
    /\ UNCHANGED StreamVars /\ UNCHANGED PollVars /\ UNCHANGED QueryVars

\* variant: the error message takes the place of the open message of the turn
CatchError_DropsPartial(c, text) ==
    /\ \E t \in ClockReadings(now) :
          /\ messages' = Append(SelectSeq(messages,
                                          LAMBDA m : m.id # calls[c].aiMessageId),
                                ErrorMessage(text, t))
          /\ now' = t
    /\ calls' = [calls EXCEPT ![c] = Returned(@, text)]
    /\ isLoading' = FALSE
    /\ UNCHANGED <<userId, sessionId, appName, currentAgentRef,
                   accumulatedTextRef, ncalls>>
    /\ UNCHANGED StreamVars /\ UNCHANGED PollVars /\ UNCHANGED QueryVars

\* the catch block of handleSubmit and the setIsLoading(false) after it
CatchError(c, text) ==
    /\ \E t \in ClockReadings(now) :
          /\ messages' = Append(messages, ErrorMessage(text, t))
          /\ now' = t
    /\ calls' = [calls EXCEPT ![c] = Returned(@, text)]
    /\ isLoading' = FALSE
    /\ UNCHANGED <<userId, sessionId, appName, currentAgentRef,
                   accumulatedTextRef, ncalls>>
    /\ UNCHANGED StreamVars /\ UNCHANGED PollVars /\ UNCHANGED QueryVars

\* fetch answers non-2xx, or rejects
FetchFails(c) ==
    /\ calls[c].pc = "fetch"
    /\ \E text \in {"Failed: Internal Server Error", "Failed to fetch"} :
          CatchError(c, text)

\* reader.read() resolves with a chunk of one of the given sizes
ReadValue(c, sizes) ==
    /\ calls[c].pc = "read"
    /\ \E n \in sizes :
          LET value == SubSeq(calls[c].body, calls[c].pos + 1, calls[c].pos + n)
              st == [agentRef |-> currentAgentRef, accRef |-> accumulatedTextRef,
                     messages |-> messages, events |-> messageEvents,
                     display |-> displayData, threw |-> FALSE]
          IN  \E r \in {DrainBuffer(st, calls[c].buffer \o value, calls[c].dispatched,
                                   calls[c].aiMessageId)} :
              /\ currentAgentRef' = r.st.agentRef
              /\ accumulatedTextRef' = r.st.accRef
              /\ messageEvents' = r.st.events
              /\ displayData' = r.st.display
              /\ IF r.st.threw
                 THEN \* the catch block of handleSubmit
                      /\ \E t \in ClockReadings(now) :
                            /\ messages' = Append(r.st.messages,
                                                  ErrorMessage("Unexpected token", t))
                            /\ now' = t
                      /\ calls' = [calls EXCEPT ![c] = Returned(@, "Unexpected token")]
                      /\ isLoading' = FALSE
                 ELSE /\ messages' = r.st.messages
                      /\ calls' = [calls EXCEPT ![c] = [@ EXCEPT !.pos = @ + n,
                                                                 !.buffer = r.buffer,
                                                                 !.dispatched = r.dispatched]]
                      /\ UNCHANGED <<isLoading, now>>
    /\ UNCHANGED <<userId, sessionId, appName, ncalls>>
    /\ UNCHANGED PollVars /\ UNCHANGED QueryVars

\* the chunk can end anywhere in the rest of the body
ReadChunk(c) == ReadValue(c, 1..(Len(calls[c].body) - calls[c].pos))

\* the server flushes line by line: the chunk ends with the next newline,
\* or with the body
ReadLineChunk(c) ==
    LET rest == SubSeq(calls[c].body, calls[c].pos + 1, Len(calls[c].body))
        nl == IndexOf(rest, "\n")
    IN  ReadValue(c, IF rest = <<>> THEN {}
                     ELSE IF nl >= 0 THEN {nl + 1} ELSE {Len(rest)})

\* variant: the loading flag is left set when the stream ends
ReadDone_KeepsLoading(c) ==
    /\ calls[c].pc = "read"
    /\ calls[c].pos = Len(calls[c].body)
    /\ calls' = [calls EXCEPT ![c] = Returned(@, Undefined)]
    /\ UNCHANGED <<userId, sessionId, appName, messages, currentAgentRef,
                   accumulatedTextRef, ncalls, now, isLoading>>
    /\ UNCHANGED StreamVars /\ UNCHANGED PollVars /\ UNCHANGED QueryVars

\* variant: what is left in the buffer is treated as a last line
ReadDone_FlushesBuffer(c) ==
    /\ calls[c].pc = "read"
    /\ calls[c].pos = Len(calls[c].body)
    /\ LET st == [agentRef |-> currentAgentRef, accRef |-> accumulatedTextRef,
                  messages |-> messages, events |-> messageEvents,
                  display |-> displayData, threw |-> FALSE]
       IN  \E r \in {DrainBuffer(st, calls[c].buffer \o <<"\n">>, calls[c].dispatched,
                                calls[c].aiMessageId)} :
               /\ currentAgentRef' = r.st.agentRef
               /\ accumulatedTextRef' = r.st.accRef
               /\ messageEvents' = r.st.events
               /\ displayData' = r.st.display
               /\ messages' = r.st.messages
    /\ calls' = [calls EXCEPT ![c] = Returned(@, Undefined)]
    /\ isLoading' = FALSE
    /\ UNCHANGED <<userId, sessionId, appName, ncalls, now>>
    /\ UNCHANGED PollVars /\ UNCHANGED QueryVars

\* reader.read() resolves with done: nothing is appended to the buffer, the
\* inner loop finds no newline, the outer loop ends
ReadDone(c) ==
    /\ calls[c].pc = "read"
    /\ calls[c].pos = Len(calls[c].body)
    /\ calls' = [calls EXCEPT ![c] = Returned(@, Undefined)]
    /\ isLoading' = FALSE
    /\ UNCHANGED <<userId, sessionId, appName, messages, currentAgentRef,
                   accumulatedTextRef, ncalls, now>>
    /\ UNCHANGED StreamVars /\ UNCHANGED PollVars /\ UNCHANGED QueryVars

\* reader.read() rejects: the transport failed
ReadFails(c) ==
    /\ calls[c].pc = "read"
    /\ CatchError(c, "network error")

-----------------------------------------------------------------------------
(* Backend health poll (checkBackend) *)

AppVars == <<userId, sessionId, appName, messages, displayData, isLoading,
             messageEvents, currentAgentRef, accumulatedTextRef, calls, ncalls, now>>

\* how the fetch of /api/docs can end
ProbeOutcomes == {"2xx", "non-2xx", "rejects"}

\* checkBackendHealth: response.ok, or false from the catch block
checkBackendHealth(outcome) ==
    CASE outcome = "2xx" -> TRUE
      [] outcome = "non-2xx" -> FALSE
      [] OTHER -> FALSE

\* variant: the poll gives up one probe early
MoreProbes_GivesUpEarly(i) == i < MaxProbes - 1

\* variant: one probe too many
MoreProbes_OneMore(i) == i < MaxProbes + 1

\* for (let i = 0; i < 60; i++)
MoreProbes(i) == i < MaxProbes

\* checkBackendHealth() returned true
ProbeSucceeds ==
    /\ pollPc = "probe"
    /\ \E outcome \in ProbeOutcomes : checkBackendHealth(outcome)
    /\ isBackendReady' = TRUE
    /\ isCheckingBackend' = FALSE
    /\ pollPc' = "end"
    /\ pollI' = 0
    /\ UNCHANGED unloading
    /\ UNCHANGED AppVars /\ UNCHANGED QueryVars

\* checkBackendHealth() returned false (non-2xx answer or fetch threw)
ProbeFails ==
    /\ pollPc = "probe"
    /\ \E outcome \in ProbeOutcomes : ~checkBackendHealth(outcome)
    /\ pollPc' = "sleep"
    /\ UNCHANGED <<isBackendReady, isCheckingBackend, pollI, unloading>>
    /\ UNCHANGED AppVars /\ UNCHANGED QueryVars

\* the 2000 ms wait ends: i++ and the loop head
PollWaitElapsed ==
    /\ pollPc = "sleep"
    /\ pollI' = pollI + 1
    /\ IF MoreProbes(pollI + 1)
       THEN pollPc' = "probe" /\ UNCHANGED isCheckingBackend
       ELSE pollPc' = "end" /\ isCheckingBackend' = FALSE
    /\ UNCHANGED <<isBackendReady, unloading>>
    /\ UNCHANGED AppVars /\ UNCHANGED QueryVars

-----------------------------------------------------------------------------
(* The /query frontends: frontend-v2 (HomePage, ChatPage, middleware/query, *)
(* ChatContext) and ChatContainer                                          *)

SendIds == 1..MaxSends

\* a request to /query that was not made yet
IdleSend == [pc |-> "idle", via |-> "none", question |-> <<>>, session_id |-> Undefined]

\* what POST /query can answer: a non-2xx status or a rejected fetch, or
\* QueryResponse { response, status, session_id?, widgets? }
QueryResponses ==
    {[ok |-> FALSE, session_id |-> Undefined, widgets |-> <<>>]}
    \cup {[ok |-> TRUE, session_id |-> sid, widgets |-> w] :
             sid \in {Undefined, "s1", "s2"}, w \in {<<>>, <<"bag">>}}

\* the text of data.response
ResponseText == <<"Here">>

\* `add item ${title} to cart`
WidgetText(title) == <<"add", " ", "item", " ", title, " ", "to", " ", "cart">>

\* the greeting ChatContainer starts with
Greeting == [role |-> "agent", content |-> <<"Hello!">>]

\* crypto.randomUUID(): a name no other message has; the model draws it from
\* the request the message belongs to and its role
ChatMessage(k, role, text) == [id |-> <<k, role>>, role |-> role, text |-> text]

\* variant: the answer's session_id is stored whatever it is
StoreSessionId_Always(cur, sid) == sid

\* if (data.session_id) activeSessionId = data.session_id
StoreSessionId(cur, sid) == IF sid # Undefined /\ sid # "" THEN sid ELSE cur

QueryInit(f, r) ==
    /\ frontend = f
    /\ activeSessionId = Undefined
    /\ chatMessages = <<>>
    /\ route = r
    /\ homeLoading = FALSE
    /\ chatLoading = FALSE
    /\ widgets = <<>>
    /\ ccSessionId = Null
    /\ ccIsLoading = FALSE
    /\ ccMessages = <<Greeting>>
    /\ sends = [k \in SendIds |-> IdleSend]
    /\ nsends = 0
    /\ received = <<>>

\* fetch('/query', { body: JSON.stringify({ question, session_id }) }) up to
\* its await: an undefined session_id is left out of the body, null is sent
PostQuery(via, question, session_id) ==
    /\ nsends < MaxSends
    /\ nsends' = nsends + 1
    /\ sends' = [sends EXCEPT ![nsends + 1] =
                    [pc |-> "await", via |-> via, question |-> question,
                     session_id |-> session_id]]

\* queryAgent of frontend-v2 up to its await
queryAgent(via, question) == PostQuery(via, question, activeSessionId)

\* queryAgent after its await: throws on a non-2xx answer, stores the
\* session_id of the answer otherwise
queryAgentReturns(resp) ==
    /\ activeSessionId' = IF resp.ok
                          THEN StoreSessionId(activeSessionId, resp.session_id)
                          ELSE activeSessionId
    /\ received' = IF resp.ok THEN Append(received, resp.session_id) ELSE received

\* HomePage.handleSearch up to its await; the input and the button are
\* disabled while loading, so neither the click nor the Enter key gets here
handleSearch ==
    /\ frontend = "v2" /\ route = "/" /\ ~homeLoading
    /\ \E searchQuery \in Inputs :
          /\ Trim(searchQuery) # <<>>
          /\ chatMessages' = Append(chatMessages,
                                    ChatMessage(nsends + 1, "user", searchQuery))
          /\ queryAgent("home", searchQuery)
    /\ homeLoading' = TRUE
    /\ UNCHANGED <<frontend, activeSessionId, route, chatLoading, widgets, received>>
    /\ UNCHANGED ContainerVars
    /\ UNCHANGED AppVars /\ UNCHANGED <<isBackendReady, isCheckingBackend, pollPc,
                                        pollI, unloading>>

\* HomePage.handleSearch after its await
SearchSettles(k) ==
    /\ sends[k].pc = "await" /\ sends[k].via = "home"
    /\ \E resp \in QueryResponses :
          /\ queryAgentReturns(resp)
          /\ IF resp.ok
             THEN /\ chatMessages' = Append(chatMessages,
                                            ChatMessage(k, "agent", ResponseText))
                  /\ route' = "/chat"
             ELSE \* console.error("query error", err)
                  UNCHANGED <<chatMessages, route>>
    /\ homeLoading' = FALSE
    /\ sends' = [sends EXCEPT ![k].pc = "done"]
    /\ UNCHANGED <<frontend, chatLoading, widgets, nsends>>
    /\ UNCHANGED ContainerVars
    /\ UNCHANGED AppVars /\ UNCHANGED <<isBackendReady, isCheckingBackend, pollPc,
                                        pollI, unloading>>

\* ChatPage.handleSend up to its await
handleSend(text) ==
    /\ text # <<>>
    /\ chatMessages' = Append(chatMessages, ChatMessage(nsends + 1, "user", text))
    /\ chatLoading' = TRUE
    /\ queryAgent("chat", text)
    /\ UNCHANGED <<frontend, activeSessionId, route, homeLoading, widgets, received>>
    /\ UNCHANGED ContainerVars
    /\ UNCHANGED AppVars /\ UNCHANGED <<isBackendReady, isCheckingBackend, pollPc,
                                        pollI, unloading>>

\* the send button of ChatPage, disabled while loading
SendButton ==
    /\ frontend = "v2" /\ route = "/chat" /\ ~chatLoading
    /\ \E inputValue \in Inputs : handleSend(Trim(inputValue))

\* ChatPage.handleKeyPress, Enter in the input, which is never disabled
handleKeyPress ==
    /\ frontend = "v2" /\ route = "/chat"
    /\ \E inputValue \in Inputs : handleSend(Trim(inputValue))

\* the add-to-cart button of a widget: onSendMessage={handleSend}
WidgetSend ==
    /\ frontend = "v2" /\ route = "/chat"
    /\ \E i \in 1..Len(widgets) : handleSend(WidgetText(widgets[i]))

\* ChatPage.handleSend after its await
SendSettles(k) ==
    /\ sends[k].pc = "await" /\ sends[k].via = "chat"
    /\ \E resp \in QueryResponses :
          /\ queryAgentReturns(resp)
          /\ IF resp.ok
             THEN /\ chatMessages' = Append(chatMessages,
                                            ChatMessage(k, "agent", ResponseText))
                  /\ widgets' = resp.widgets
             ELSE /\ chatMessages' =
                        Append(chatMessages,
                               ChatMessage(k, "agent",
                                           <<"Error:", " ", "could not get response.">>))
                  /\ UNCHANGED widgets
    /\ chatLoading' = FALSE
    /\ sends' = [sends EXCEPT ![k].pc = "done"]
    /\ UNCHANGED <<frontend, route, homeLoading, nsends>>
    /\ UNCHANGED ContainerVars
    /\ UNCHANGED AppVars /\ UNCHANGED <<isBackendReady, isCheckingBackend, pollPc,
                                        pollI, unloading>>

\* ChatContainer.handleSendMessage up to its await, reached through
\* ChatInput.handleSubmit (message.trim() && !disabled)
handleSendMessage ==
    /\ frontend = "container" /\ ~ccIsLoading
    /\ \E message \in Inputs :
          /\ Trim(message) # <<>>
          /\ ccMessages' = Append(ccMessages, [role |-> "user", content |-> message])
          /\ PostQuery("container", message, ccSessionId)
    /\ ccIsLoading' = TRUE
    /\ UNCHANGED <<frontend, ccSessionId, received>>
    /\ UNCHANGED V2Vars
    /\ UNCHANGED AppVars /\ UNCHANGED <<isBackendReady, isCheckingBackend, pollPc,
                                        pollI, unloading>>

\* ChatContainer.handleSendMessage after its await
SendMessageSettles(k) ==
    /\ sends[k].pc = "await" /\ sends[k].via = "container"
    /\ \E resp \in QueryResponses :
          IF resp.ok
          THEN /\ ccSessionId' = StoreSessionId(ccSessionId, resp.session_id)
               /\ received' = Append(received, resp.session_id)
               /\ ccMessages' = Append(ccMessages,
                                       [role |-> "agent", content |-> ResponseText])
          ELSE /\ ccMessages' =
                     Append(ccMessages,
                            [role |-> "agent",
                             content |-> <<"Error:", " ", "Failed to get response:",
                                           " ", "HTTP 500">>])
               /\ UNCHANGED <<ccSessionId, received>>
    /\ ccIsLoading' = FALSE
    /\ sends' = [sends EXCEPT ![k].pc = "done"]
    /\ UNCHANGED <<frontend, nsends>>
    /\ UNCHANGED V2Vars
    /\ UNCHANGED AppVars /\ UNCHANGED <<isBackendReady, isCheckingBackend, pollPc,
                                        pollI, unloading>>

-----------------------------------------------------------------------------
(* Cancel and reload *)

\* App after construction
InitApp ==
    /\ userId = Null /\ sessionId = Null /\ appName = Null
    /\ messages = <<>>
    /\ displayData = Null
    /\ isLoading = FALSE
    /\ messageEvents = <<>>
    /\ isBackendReady = FALSE
    /\ isCheckingBackend = TRUE
    /\ currentAgentRef = ""
    /\ accumulatedTextRef = <<>>
    /\ pollPc = "probe" /\ pollI = 0
    /\ calls = [c \in CallIds |-> IdleCall]
    /\ ncalls = 0
    /\ now = 0
    /\ unloading = FALSE

Init == InitApp /\ QueryInit("app", "/")

\* the document is replaced: every pending continuation is gone and App is
\* constructed anew
Reloaded ==
    /\ userId' = Null /\ sessionId' = Null /\ appName' = Null
    /\ messages' = <<>>
    /\ displayData' = Null
    /\ isLoading' = FALSE
    /\ messageEvents' = <<>>
    /\ isBackendReady' = FALSE
    /\ isCheckingBackend' = TRUE
    /\ currentAgentRef' = ""
    /\ accumulatedTextRef' = <<>>
    /\ pollPc' = "probe" /\ pollI' = 0
    /\ calls' = [c \in CallIds |-> IdleCall]
    /\ ncalls' = 0
    /\ now' = 0
    /\ unloading' = FALSE
    /\ UNCHANGED QueryVars

\* window.location.reload(): the navigation starts and the call returns; the
\* old document, its pending fetches and their continuations live on until
\* the new document replaces it
LocationReload == unloading' = TRUE

\* the Cancel button, rendered while isLoading: the three setters, then reload
handleCancel ==
    /\ ChatUiShown /\ isLoading /\ ~unloading
    /\ messages' = <<>>
    /\ displayData' = Null
    /\ messageEvents' = <<>>
    /\ LocationReload
    /\ UNCHANGED <<userId, sessionId, appName, isLoading, isBackendReady,
                   isCheckingBackend, currentAgentRef, accumulatedTextRef,
                   pollPc, pollI, calls, ncalls, now>>
    /\ UNCHANGED QueryVars

\* "New Chat" of ChatMessagesView
handleNewChat ==
    /\ ChatUiShown /\ messages # <<>> /\ ~unloading
    /\ LocationReload
    /\ UNCHANGED <<isBackendReady, isCheckingBackend, pollPc, pollI>>
    /\ UNCHANGED AppVars /\ UNCHANGED QueryVars

\* "Retry" of the Backend Unavailable screen
RetryButton ==
    /\ ~isCheckingBackend /\ ~isBackendReady /\ ~unloading
    /\ LocationReload
    /\ UNCHANGED <<isBackendReady, isCheckingBackend, pollPc, pollI>>
    /\ UNCHANGED AppVars /\ UNCHANGED QueryVars

\* the new document is committed
Unload ==
    /\ unloading
    /\ Reloaded

Next ==
    \/ ProbeSucceeds
    \/ ProbeFails
    \/ PollWaitElapsed
    \/ WelcomeSubmit
    \/ ChatSubmit
    \/ SyntheticMessage
    \/ \E c \in CallIds : AttemptSucceeds(c)
    \/ \E c \in CallIds : AttemptFails(c)
    \/ \E c \in CallIds : BackoffElapsed(c)
    \/ \E c \in CallIds : FetchOk(c)
    \/ \E c \in CallIds : FetchOkNoBody(c)
    \/ \E c \in CallIds : FetchFails(c)
    \/ \E c \in CallIds : ReadLineChunk(c)
    \/ \E c \in CallIds : ReadDone(c)
    \/ \E c \in CallIds : ReadFails(c)
    \/ handleCancel
    \/ handleNewChat
    \/ RetryButton
    \/ Unload

Spec == Init /\ [][Next]_vars

(* The same program with a backend that is healthy at the first probe and  *)
(* creates the session at the first attempt, a user who only uses the      *)
(* form, and the longer response bodies: one stream at a time.             *)
NextStream ==
    \/ ProbeSucceeds
    \/ WelcomeSubmit
    \/ ChatSubmit
    \/ \E c \in CallIds : AttemptSucceeds(c)
    \/ \E c \in CallIds : FetchOkRich(c)
    \/ \E c \in CallIds : ReadChunk(c)
    \/ \E c \in CallIds : ReadDone(c)

SpecStream == Init /\ [][NextStream]_vars

(* The health poll alone, page load after page load.  Until the poll ends  *)
(* App renders no control but, at the end, the Retry button, so no other   *)
(* action is enabled while it runs.  Every fetch of the probe settles and  *)
(* every timer fires.                                                      *)
NextPoll ==
    \/ ProbeSucceeds
    \/ ProbeFails
    \/ PollWaitElapsed
    \/ RetryButton
    \/ Unload

SpecPoll ==
    /\ Init /\ [][NextPoll]_vars
    /\ WF_vars(ProbeSucceeds \/ ProbeFails)
    /\ WF_vars(PollWaitElapsed)

(* The /query frontends: the browser has loaded frontend-v2, at the home   *)
(* page or at the chat page, or the page of ChatContainer.                 *)
InitQuery ==
    /\ InitApp
    /\ \/ \E r \in {"/", "/chat"} : QueryInit("v2", r)
       \/ QueryInit("container", "/")

NextQuery ==
    \/ handleSearch
    \/ \E k \in SendIds : SearchSettles(k)
    \/ SendButton
    \/ handleKeyPress
    \/ WidgetSend
    \/ \E k \in SendIds : SendSettles(k)
    \/ handleSendMessage
    \/ \E k \in SendIds : SendMessageSettles(k)

SpecQuery == InitQuery /\ [][NextQuery]_vars

-----------------------------------------------------------------------------
(* Reference definitions for the properties: the frames of a text, read    *)
(* off the whole text at once                                              *)

RECURSIVE CompleteLines(_)
\* the newline-terminated lines of a text, without their newline
CompleteLines(text) ==
    LET i == IndexOf(text, "\n")
    IN  IF i < 0 THEN <<>>
        ELSE <<Slice(text, 0, i)>> \o CompleteLines(SliceFrom(text, i + 1))

RECURSIVE UnterminatedTail(_)
\* what follows the last newline of a text
UnterminatedTail(text) ==
    LET i == IndexOf(text, "\n")
    IN  IF i < 0 THEN text ELSE UnterminatedTail(SliceFrom(text, i + 1))

RECURSIVE PayloadsOfLines(_)
PayloadsOfLines(lines) ==
    IF lines = <<>> THEN <<>>
    ELSE LET l == Trim(Head(lines))
         IN  IF StartsWith(l, DataPrefix)
             THEN <<Trim(SubSeq(l, 6, Len(l)))>> \o PayloadsOfLines(Tail(lines))
             ELSE PayloadsOfLines(Tail(lines))

FramePayloads(text) == PayloadsOfLines(CompleteLines(text))

RECURSIVE FragmentsOf(_)
\* the non-empty text fragments of a sequence of payloads, in order
FragmentsOf(payloads) ==
    IF payloads = <<>> THEN <<>>
    ELSE (IF Throws(Head(payloads)) THEN <<>>
          ELSE TruthyTexts(JSONparse(Head(payloads)).parts))
         \o FragmentsOf(Tail(payloads))

TextBearing(payload) == ~Throws(payload) /\ TruthyTexts(JSONparse(payload).parts) # <<>>

\* the author a frame contributes: none when the extraction throws
AuthorOfFrame(payload) ==
    IF Throws(payload) \/ JSONparse(payload).author = Undefined THEN ""
    ELSE JSONparse(payload).author

RECURSIVE LastAuthor(_)
\* the most recent non-empty author of a sequence of frames, "" if none
LastAuthor(payloads) ==
    IF payloads = <<>> THEN ""
    ELSE IF AuthorOfFrame(payloads[Len(payloads)]) # ""
         THEN AuthorOfFrame(payloads[Len(payloads)])
         ELSE LastAuthor(SubSeq(payloads, 1, Len(payloads) - 1))

\* the index of the last text-bearing frame, 0 if none
LastTextFrame(payloads) ==
    IF \E k \in 1..Len(payloads) : TextBearing(payloads[k])
    THEN CHOOSE k \in 1..Len(payloads) :
            /\ TextBearing(payloads[k])
            /\ \A l \in (k + 1)..Len(payloads) : ~TextBearing(payloads[l])
    ELSE 0

\* the positions of the newlines of a text
NewlinesOf(text) == {i \in 1..Len(text) : text[i] = "\n"}

\* the line that the newline at position i ends, trimmed
LineEndingAt(text, i) ==
    LET before == {j \in NewlinesOf(text) : j < i}
        start == IF before = {} THEN 1
                 ELSE 1 + CHOOSE j \in before : \A l \in before : l <= j
    IN  Trim(SubSeq(text, start, i - 1))

\* the newlines of a text that end a data: line
DataLineEnds(text) ==
    {i \in NewlinesOf(text) : StartsWith(LineEndingAt(text, i), DataPrefix)}

RECURSIVE LastSessionId(_)
\* the session_id of the most recent answer that carried one, Undefined if none
LastSessionId(log) ==
    IF log = <<>> THEN Undefined
    ELSE IF log[Len(log)] # Undefined THEN log[Len(log)]
         ELSE LastSessionId(SubSeq(log, 1, Len(log) - 1))

\* the requests of frontend-v2 that await their answer
AwaitingV2 == {k \in SendIds : sends[k].pc = "await" /\ sends[k].via \in {"home", "chat"}}

\* the part of the response body that invocation c has read
Consumed(c) == SubSeq(calls[c].body, 1, calls[c].pos)

NumInFlight == Cardinality({c \in CallIds : InFlight(c)})

TripleStored == userId # Null /\ sessionId # Null /\ appName # Null

\* this step replaces the document
IsReload == isCheckingBackend' /\ ~isCheckingBackend

\* this step is handleCancel
IsCancel == ~unloading /\ unloading' /\ isLoading /\ messages' = <<>>

IsPrefix(a, b) == Len(a) <= Len(b) /\ SubSeq(b, 1, Len(a)) = a

\* the invocations whose stream is open
OpenStreams == {c \in CallIds : calls[c].pc = "read"}

\* in this step invocation c posts to the session-creation endpoint
PostsSession(c) == calls'[c].pc = "attempt" /\ calls[c].pc # "attempt"

-----------------------------------------------------------------------------
(* Properties *)

\* C1: at most one query is in flight in every reachable state: while a
\* handleSubmit invocation has started and not finished, no entry point starts
\* a second one.
C1_AtMostOneQueryInFlight == NumInFlight <= 1

\* C2: for a single stream, whenever text fragments have been applied to the
\* ai message of the turn, its content is the trimmed join, with single
\* blanks, of all non-empty fragments of the frames read so far, in order.
C2_ContentIsTrimmedJoin ==
    \A c \in CallIds :
        calls[c].pc = "read" =>
            LET frags == FragmentsOf(FramePayloads(Consumed(c)))
            IN  frags # <<>> =>
                  /\ \E i \in 1..Len(messages) : messages[i].id = calls[c].aiMessageId
                  /\ \A i \in 1..Len(messages) :
                        messages[i].id = calls[c].aiMessageId =>
                            messages[i].content = Trim(JoinSp(frags))

\* two frames "Here" and "are options" were applied and the content is
\* exactly "Here are options"
C2_Witness ==
    \E c \in CallIds :
        /\ calls[c].pc = "read"
        /\ FragmentsOf(calls[c].dispatched) = <<<<"Here">>, <<"are", " ", "options">>>>
        /\ \E i \in 1..Len(messages) :
              /\ messages[i].id = calls[c].aiMessageId
              /\ messages[i].content = <<"Here", " ", "are", " ", "options">>
              /\ messages[i].agent = "product_agent"

\* C3: however the response text is cut into chunks, the payloads handed to
\* the reducer so far are the data: payloads of the newline-terminated lines
\* of the text read so far, in order, and the buffer holds the unterminated
\* rest; both depend on the text alone, not on the chunk boundaries.
C3_ChunkBoundaryInvariance ==
    \A c \in CallIds :
        calls[c].pc = "read" =>
            /\ calls[c].dispatched = FramePayloads(Consumed(c))
            /\ calls[c].buffer = UnterminatedTail(Consumed(c))

\* a chunk ended inside the data: prefix of a later line
C3_Witness ==
    \E c \in CallIds :
        /\ calls[c].pc = "read"
        /\ calls[c].buffer = <<"d", "a">>
        /\ Len(calls[c].dispatched) >= 1

\* C4: a chunk whose frames all fail to parse (or whose parsed shape makes
\* the extraction throw) leaves the transcript and the event map as they
\* were and the read loop running, no Error message is appended, and the
\* frames after it are applied: the events of the message are those of the
\* text-bearing frames read so far.
C4_MalformedFrameIsNoOp ==
    [][\A c \in CallIds :
          \A old \in {FramePayloads(Consumed(c))} :
          \A new \in {FramePayloads(SubSeq(calls[c].body, 1, calls'[c].pos))} :
          /\ (/\ calls[c].pc = "read"
              /\ Len(new) > Len(old)
              /\ \A k \in (Len(old) + 1)..Len(new) : Throws(new[k]))
             => /\ calls'[c].pc = "read"
                /\ messages' = messages
                /\ messageEvents' = messageEvents
          /\ calls'[c].pc = "read" =>
                \A applied \in {SelectSeq(FramePayloads(SubSeq(calls'[c].body, 1,
                                                               calls'[c].pos)),
                                          TextBearing)} :
                    /\ \A i \in 1..Len(messages') : messages'[i].type = "ai" =>
                           (messages'[i].content = <<>> \/ messages'[i].content[1] # "Error:")
                    /\ applied # <<>> =>
                          /\ calls'[c].aiMessageId \in DOMAIN messageEvents'
                          /\ Len(messageEvents'[calls'[c].aiMessageId]) >= Len(applied)
      ]_vars

\* a malformed frame was dropped and a later frame of the same stream was
\* applied to the message
C4_Witness ==
    \E c \in CallIds :
        /\ calls[c].pc = "read"
        /\ \E k \in 1..Len(calls[c].dispatched) :
              /\ Throws(calls[c].dispatched[k])
              /\ \E l \in (k + 1)..Len(calls[c].dispatched) : TextBearing(calls[c].dispatched[l])
        /\ \E i \in 1..Len(messages) :
              /\ messages[i].id = calls[c].aiMessageId
              /\ messages[i].content = <<"IMG">>

\* C5: a failed session bootstrap is caught by the submission flow: no
\* handleSubmit invocation ends with an uncaught rejection.
C5_BootstrapFailureIsCaught ==
    \A c \in CallIds : calls[c].pc # "rejected"

\* C6: after a submission whose bootstrap failed the application is idle
\* again: the triple is unset and isLoading is false, so the form accepts a
\* new submission.
C6_IdleAfterFailedBootstrap ==
    \A c \in CallIds :
        calls[c].pc = "rejected" => (~isLoading /\ ~TripleStored)

\* C7: a submission posts to the session-creation endpoint only while the
\* stored triple is incomplete, and a bootstrap that succeeds stores a
\* complete triple; so after one successful bootstrap no later submission
\* posts again.
C7_SessionCreatedOnlyWhenUnset ==
    [][\A c \in CallIds :
          /\ PostsSession(c) => ~TripleStored
          /\ (calls[c].pc = "attempt" /\ calls'[c].pc = "fetch") => TripleStored'
      ]_vars

\* a second submission runs its request with the stored triple, without
\* having posted to the session-creation endpoint
C7_Witness ==
    /\ ncalls >= 2
    /\ calls[1].pc = "done"
    /\ calls[2].pc = "read"
    /\ TripleStored

\* C8: once stored, the triple changes only by a reload, and every run
\* request carries the triple resolved at the start of its query, which is
\* the stored one, for the whole query.
C8_TripleStableAndUsed ==
    [][/\ (TripleStored /\ ~IsReload) =>
             /\ userId' = userId
             /\ sessionId' = sessionId
             /\ appName' = appName
       /\ \A c \in CallIds :
             /\ calls'[c].pc \in {"fetch", "read"} =>
                   /\ calls'[c].request.userId = userId'
                   /\ calls'[c].request.sessionId = sessionId'
                   /\ calls'[c].request.appName = appName'
                   /\ TripleStored'
             /\ (calls[c].pc \in {"fetch", "read"} /\ calls'[c].pc \in {"fetch", "read"})
                   => calls'[c].request = calls[c].request
      ]_vars

\* two queries overlap and both carry the stored triple of the first bootstrap
C8_Witness ==
    /\ sessionId = "session1"
    /\ calls[1].pc = "read" /\ calls[1].request.sessionId = "session1"
    /\ calls[2].pc = "read" /\ calls[2].request.sessionId = "session1"

\* C9 as stated: when all 10 attempts fail, the bootstrap ends with the
\* dedicated timeout error, not with the error of the last attempt.
C9_ExhaustionRaisesDedicatedError ==
    \A c \in CallIds :
        (calls[c].pc = "rejected" /\ calls[c].attempt = maxRetries)
            => calls[c].error = TimeoutError

\* C9 as amended: a bootstrap that ends after 10 failed attempts re-raises
\* the error of the last attempt; it ends with the timeout error exactly
\* when the ceiling check ahead of one of the attempts 2..10 finds more than
\* 120000 ms elapsed.
C9_ExhaustionRethrowsLastError ==
    \A c \in CallIds :
        calls[c].pc = "rejected" =>
            IF calls[c].attempt = maxRetries
            THEN /\ calls[c].error = calls[c].lastError
                 /\ calls[c].error \in {"Failed to create session", "Failed to fetch"}
            ELSE /\ calls[c].error = TimeoutError
                 /\ calls[c].attempt \in 1..(maxRetries - 1)
                 /\ calls[c].elapsed > maxDuration

\* all 10 attempts failed
C9_Witness ==
    \E c \in CallIds : calls[c].pc = "rejected" /\ calls[c].attempt = maxRetries

\* C10: attempts are numbered 0..9 and each is invoked once, the wait
\* after failed attempt k is 1000, 2000, 4000, 5000, 5000, ... ms, and a
\* successful attempt ends the bootstrap with its result: the invocation goes
\* on to the run request and never attempts or waits again.
C10_BackoffSchedule ==
    [][\A c \in CallIds :
          /\ calls'[c].pc = "attempt" =>
                /\ calls'[c].attempt < 10
                /\ calls[c].pc = "wait" => calls'[c].attempt = calls[c].attempt + 1
                /\ calls[c].pc = "idle" => calls'[c].attempt = 0
          /\ (calls[c].pc = "attempt" /\ calls'[c].pc = "wait") =>
                /\ calls'[c].attempt = calls[c].attempt
                /\ calls'[c].delay = CASE calls[c].attempt = 0 -> 1000
                                       [] calls[c].attempt = 1 -> 2000
                                       [] calls[c].attempt = 2 -> 4000
                                       [] OTHER -> 5000
          /\ (calls[c].pc = "attempt" /\ calls'[c].pc \notin {"attempt", "wait", "idle"}) =>
                /\ calls'[c].pc = "fetch"
                /\ calls'[c].request.sessionId = SessionResponse(c).id
                /\ sessionId' = SessionResponse(c).id
          /\ calls[c].pc \in {"fetch", "read", "done", "rejected"} =>
                calls'[c].pc \notin {"attempt", "wait"}
      ]_vars

\* the fifth attempt failed and the capped wait of 5000 ms is running
C10_Witness ==
    \E c \in CallIds :
        calls[c].pc = "wait" /\ calls[c].attempt = 4 /\ calls[c].delay = 5000

\* C11: the health poll makes at most 60 probes, one after the other with
\* a wait between two probes, makes no probe after a success, takes a
\* non-2xx answer and a failed fetch alike as "not ready" and goes on to the
\* wait, and always ends: ready at the first success, not ready after 60
\* failures.  pollI counts the failed probes of this page load.
C11_PollBoundedAndTerminates ==
    /\ [](pollPc = "probe" => pollI < 60)
    /\ [](isBackendReady => pollPc = "end")
    /\ [](pollPc = "end" => (isBackendReady /\ ~isCheckingBackend)
                             \/ (~isBackendReady /\ ~isCheckingBackend /\ pollI = 60))
    /\ [](pollPc # "end" => isCheckingBackend /\ ~isBackendReady)
    /\ [][/\ (pollPc = "probe" /\ pollPc' # "probe") =>
                 \/ pollPc' = "end" /\ isBackendReady'
                 \/ pollPc' = "sleep" /\ pollI' = pollI /\ ~isBackendReady'
          /\ (pollPc' = "probe" /\ pollPc # "probe") =>
                 \/ pollPc = "sleep" /\ pollI' = pollI + 1
                 \/ IsReload
         ]_vars
    /\ (pollPc = "probe" ~> pollPc = "end")

\* the poll gave up after 60 failed probes
C11_Witness == pollPc = "end" /\ ~isBackendReady /\ pollI = 60 /\ ~isCheckingBackend

\* C12: handleSubmit starts only after the health poll has ended with a
\* success: while the poll runs the connecting screen is rendered, after 60
\* failed probes the Backend Unavailable screen, and on neither of them a
\* submission starts.
C12_SubmitOnlyWhenBackendReady ==
    /\ [](pollPc # "end" => Screen = "connecting")
    /\ []((pollPc = "end" /\ ~isBackendReady) => Screen = "unavailable")
    /\ [](Screen \in {"connecting", "unavailable"} => ncalls = 0)
    /\ [][ncalls' > ncalls =>
              /\ isBackendReady /\ ~isCheckingBackend /\ pollPc = "end"
              /\ Screen \in {"welcome", "chat"}
         ]_vars

\* a query was submitted from the chat of a ready backend
C12_Witness == ncalls >= 1 /\ isBackendReady /\ Screen = "chat" /\ pollPc = "end"

\* C13: when the run request answers non-2xx or the fetch throws, exactly one
\* message is appended to the transcript: an ai message whose content is
\* "Error: " and the error text, nothing of the accumulated stream text; the
\* messages that were there stay as they were.
C13_RunFailureAppendsOneError ==
    [][\A c \in CallIds :
          (calls[c].pc = "fetch" /\ calls'[c].pc = "done" /\ calls'[c].error # Undefined) =>
              /\ Len(messages') = Len(messages) + 1
              /\ SubSeq(messages', 1, Len(messages)) = messages
              /\ messages'[Len(messages')].type = "ai"
              /\ messages'[Len(messages')].id.sfx = "_ai_error"
              /\ messages'[Len(messages')].content = <<"Error:", " ", calls'[c].error>>
              /\ calls'[c].error \in {"Failed: Internal Server Error", "Failed to fetch"}
      ]_vars

\* the first turn streamed its answer, the run request of the second failed
C13_Witness ==
    /\ Len(messages) = 5
    /\ messages[2].content = <<"Here", " ", "are", " ", "options">>
    /\ messages[4].content = <<>>
    /\ messages[5].content = <<"Error:", " ", "Failed: Internal Server Error">>
    /\ calls[2].pc = "done" /\ calls[2].error = "Failed: Internal Server Error"

\* C14: while the page is not being left, at most one stream is open, its
\* message is the last message of the transcript and an ai message, and a
\* step changes the content of no message but that one.
C14_OneOpenMessageIsLast ==
    /\ [](~unloading =>
            /\ Cardinality(OpenStreams) <= 1
            /\ \A c \in OpenStreams :
                  /\ messages # <<>>
                  /\ messages[Len(messages)].type = "ai"
                  /\ messages[Len(messages)].id = calls[c].aiMessageId)
    /\ [][(~unloading /\ ~unloading') =>
             \A i \in 1..Len(messages) :
                 (i <= Len(messages') /\ messages'[i].content # messages[i].content) =>
                     /\ i = Len(messages)
                     /\ \E c \in OpenStreams : messages[i].id = calls[c].aiMessageId
         ]_vars

\* C15: the ids of the messages of the transcript are pairwise distinct.
C15_MessageIdsDistinct ==
    \A i, j \in 1..Len(messages) : i # j => messages[i].id # messages[j].id

\* C16: the step in which a query passes session resolution appends two
\* messages to the transcript at once: the human message with the query as
\* its content, then the ai message of the turn with empty content.
C16_PairAppendedTogether ==
    [][\A c \in CallIds :
          (calls'[c].pc = "fetch" /\ calls[c].pc # "fetch") =>
              /\ Trim(calls'[c].query) # <<>>
              /\ Len(messages') = Len(messages) + 2
              /\ SubSeq(messages', 1, Len(messages)) = messages
              /\ messages'[Len(messages') - 1].type = "human"
              /\ messages'[Len(messages') - 1].content = calls'[c].query
              /\ messages'[Len(messages')].type = "ai"
              /\ messages'[Len(messages')].content = <<>>
              /\ messages'[Len(messages')].id = calls'[c].aiMessageId
      ]_vars

\* the second query of a conversation has just passed session resolution
C16_Witness ==
    /\ Len(messages) = 4
    /\ calls[2].pc = "fetch"
    /\ messages[2].content # <<>>
    /\ messages[3].type = "human" /\ messages[3].content = <<"shoes">>
    /\ messages[4].type = "ai" /\ messages[4].content = <<>>

\* C17: but for cancel and the replacement of the document, a step leaves
\* every message at its place with its id and type and adds new ones at the
\* end only; every human message is directly followed by the ai message
\* created with it.
C17_TranscriptGrowsAtEnd ==
    /\ [][IsCancel \/ IsReload \/
             /\ Len(messages') >= Len(messages)
             /\ \A i \in 1..Len(messages) :
                   /\ messages'[i].id = messages[i].id
                   /\ messages'[i].type = messages[i].type
         ]_vars
    /\ [](\A i \in 1..Len(messages) :
             messages[i].type = "human" =>
                 /\ i < Len(messages)
                 /\ messages[i + 1].type = "ai"
                 /\ messages[i + 1].id.sfx = "_ai"
                 /\ messages[i + 1].id.ms \in {messages[i].id.ms, messages[i].id.ms + 1})

\* a completed turn, then a turn whose stream broke
C17_Witness ==
    /\ Len(messages) = 5
    /\ messages[1].type = "human" /\ messages[2].type = "ai"
    /\ messages[2].content # <<>>
    /\ messages[3].type = "human" /\ messages[4].type = "ai"
    /\ messages[5].content = <<"Error:", " ", "network error">>
    /\ calls[1].pc = "done" /\ calls[2].pc = "done"

\* C18: while the page is not being left, each new content of an ai message
\* starts with its previous content, and the content of a message whose
\* stream is not open does not change.
C18_ContentGrowsThenFrozen ==
    [][(~unloading /\ ~unloading') =>
          \A i \in 1..Len(messages) :
              (i <= Len(messages') /\ messages[i].type = "ai") =>
                  /\ IsPrefix(messages[i].content, messages'[i].content)
                  /\ (\A c \in OpenStreams : calls[c].aiMessageId # messages[i].id)
                        => messages'[i].content = messages[i].content
      ]_vars

\* C19: the step that ends a turn (stream completed, run request failed,
\* stream broke) leaves isLoading false, and whenever isLoading is false on
\* the welcome screen or the chat a submission through the form is possible.
C19_IdleAfterTurn ==
    /\ [][\A c \in CallIds :
             (calls[c].pc \in {"fetch", "read"} /\ calls'[c].pc = "done") => ~isLoading'
         ]_vars
    /\ []((~isLoading /\ ChatUiShown /\ ~unloading /\ ncalls < MaxCalls /\ now < MaxClock)
            => ENABLED (WelcomeSubmit \/ ChatSubmit))

\* the run request of the first turn failed; the second turn, submitted on
\* the same page, streamed its answer to the end
C19_Witness ==
    /\ calls[1].pc = "done" /\ calls[1].error = "Failed to fetch"
    /\ calls[2].pc = "done" /\ calls[2].error = Undefined
    /\ ~isLoading /\ ~unloading
    /\ Len(messages) = 5
    /\ messages[3].content = <<"Error:", " ", "Failed to fetch">>
    /\ messages[5].content = <<"Here", " ", "are", " ", "options">>

\* C20: cancel empties the transcript and the event map and starts the
\* reload, and from then on, until the document is replaced, the transcript
\* stays empty.
C20_CancelStopsTranscript ==
    [][/\ IsCancel => (messages' = <<>> /\ messageEvents' = <<>> /\ unloading')
       /\ (unloading /\ messages = <<>> /\ ~IsReload) => messages' = <<>>
      ]_vars

\* C22 as stated: no attempt is invoked once more than 120000 ms have
\* elapsed, and a bootstrap that ends with more than 120000 ms elapsed ends
\* with the timeout error, the last attempt and its wait included.
C22_CeilingAlwaysGivesTimeout ==
    [][\A c \in CallIds :
          /\ (calls[c].pc = "wait" /\ calls'[c].pc = "attempt")
                => calls'[c].elapsed <= maxDuration
          /\ (calls[c].pc = "wait" /\ calls'[c].pc = "rejected"
                /\ calls'[c].elapsed > maxDuration)
                => calls'[c].error = TimeoutError
      ]_vars

\* C22 as amended: no attempt is invoked once more than 120000 ms have
\* elapsed; a bootstrap that finds the ceiling crossed ahead of one of the
\* attempts 2..10 ends with the timeout error; when the ceiling is crossed
\* during the last attempt or the wait after it, the bootstrap ends with the
\* error of the last attempt.
C22_CeilingCheckedAheadOfAttempts ==
    [][\A c \in CallIds :
          /\ (calls[c].pc = "wait" /\ calls'[c].pc = "attempt")
                => calls'[c].elapsed <= maxDuration
          /\ (calls[c].pc = "wait" /\ calls'[c].pc # "wait"
                /\ calls'[c].elapsed > maxDuration) =>
                /\ calls'[c].pc = "rejected"
                /\ calls'[c].error = IF calls'[c].attempt < maxRetries
                                     THEN TimeoutError
                                     ELSE calls[c].lastError
      ]_vars

\* the ceiling was crossed during the last attempt or the wait after it
C22_Witness ==
    \E c \in CallIds :
        /\ calls[c].pc = "rejected"
        /\ calls[c].attempt = maxRetries
        /\ calls[c].elapsed > maxDuration
        /\ calls[c].error # TimeoutError

C24_AgentFromOwnTurn ==
    \A c \in OpenStreams :
        \A i \in 1..Len(messages) :
            (messages[i].type = "ai" /\ messages[i].id = calls[c].aiMessageId) =>
                messages[i].agent \in
                    {""} \cup {AuthorOfFrame(calls[c].dispatched[k]) :
                                  k \in 1..Len(calls[c].dispatched)}

\* C27: for every interleaving, the content of the ai message of a turn is
\* made of the fragments delivered on that turn's own stream, all of them and
\* nothing else: no fragment of another turn appears in it and none of its
\* own is erased.
C27_ContentFromOwnStream ==
    \A c \in OpenStreams :
        \A own \in {Trim(JoinSp(FragmentsOf(calls[c].dispatched)))} :
        \A i \in 1..Len(messages) :
            (messages[i].type = "ai" /\ messages[i].id = calls[c].aiMessageId) =>
                messages[i].content = own

\* C25: a line of the response is handed to the reducer exactly when it is
\* newline-terminated and, trimmed (a trailing carriage return included),
\* starts with data:; what is handed over is the rest of the line after the
\* prefix, trimmed; a read that completes only blank lines, comment lines or
\* lines of other fields changes nothing but the buffer.
C25_OnlyDataLinesReachReducer ==
    /\ [](\A c \in OpenStreams :
            \A text \in {Consumed(c)} :
            \A ends \in {DataLineEnds(text)} :
                /\ Len(calls[c].dispatched) = Cardinality(ends)
                /\ \A i \in ends :
                      \A l \in {LineEndingAt(text, i)} :
                          calls[c].dispatched[Cardinality({j \in ends : j <= i})]
                              = Trim(SubSeq(l, Len(DataPrefix) + 1, Len(l))))
    /\ [][\A c \in OpenStreams :
            (/\ calls'[c].pc = "read"
             /\ calls'[c].pos > calls[c].pos
             /\ DataLineEnds(SubSeq(calls[c].body, 1, calls'[c].pos))
                    = DataLineEnds(Consumed(c)))
            => /\ calls'[c].dispatched = calls[c].dispatched
               /\ UNCHANGED <<messages, messageEvents, displayData,
                              accumulatedTextRef, currentAgentRef, isLoading>>
         ]_vars

\* three lines were completed: a line of another field was skipped and an
\* indented data: line was handed over without its indentation
C25_Witness ==
    \E c \in OpenStreams :
        /\ calls[c].body = Body5
        /\ Len(CompleteLines(Consumed(c))) = 3
        /\ CompleteLines(Consumed(c))[1] = <<"i", "d", ":">>
        /\ Len(calls[c].dispatched) = 2
        /\ calls[c].dispatched[2] = <<"{", "Here", "}">>

\* C26: the step in which the stream reports completion changes neither the
\* transcript nor the event map nor the accumulator, whatever is left in the
\* buffer, a complete data: frame included; the frames applied by then are
\* those of the newline-terminated data: lines of the response and no more.
C26_LeftoverDiscardedAtEnd ==
    [][\A c \in CallIds :
          (/\ calls[c].pc = "read"
           /\ calls'[c].pc = "done"
           /\ calls'[c].error = Undefined)
          => /\ Len(calls[c].dispatched) = Cardinality(DataLineEnds(calls[c].body))
             /\ UNCHANGED <<messages, messageEvents, displayData,
                            accumulatedTextRef, currentAgentRef>>
      ]_vars

\* the stream of the response whose last line 'data:{Here}' has no newline
\* has completed: the message holds the text of the first frame alone
C26_Witness ==
    \E c \in CallIds :
        /\ calls[c].pc = "done"
        /\ calls[c].error = Undefined
        /\ ~isLoading
        /\ \E i \in 1..Len(messages) :
              /\ messages[i].id = calls[c].aiMessageId
              /\ messages[i].agent = "cart_agent"
              /\ messages[i].content =
                    Trim(JoinSp(FragmentsOf(<<<<"{", "@c", "_sp", "Here", "}">>>>)))

\* C28: the step in which an open stream breaks leaves every message of the
\* transcript as it was, the partly streamed message with its content and
\* agent included, and appends one more ai message whose content is
\* "Error: " followed by the error text.
C28_StreamErrorKeepsPartialMessage ==
    [][\A c \in CallIds :
          (/\ calls[c].pc = "read"
           /\ calls'[c].pc = "done"
           /\ calls'[c].error # Undefined)
          => /\ Len(messages') = Len(messages) + 1
             /\ \A i \in 1..Len(messages) : messages'[i] = messages[i]
             /\ messages'[Len(messages')].type = "ai"
             /\ messages'[Len(messages')].id.sfx = "_ai_error"
             /\ messages'[Len(messages')].id # calls[c].aiMessageId
             /\ SubSeq(messages'[Len(messages')].content, 1, 2) = <<"Error:", " ">>
             /\ UNCHANGED <<messageEvents, displayData>>
      ]_vars

\* the stream broke after the frame "Here" of product_agent was applied
C28_Witness ==
    \E c \in CallIds :
        /\ calls[c].pc = "done"
        /\ calls[c].error = "network error"
        /\ Len(messages) = 3
        /\ messages[2].id = calls[c].aiMessageId
        /\ messages[2].content = <<"Here">>
        /\ messages[2].agent = "product_agent"
        /\ messages[3].content = <<"Error:", " ", "network error">>

\* C29: once isBackendReady is true it stays true and the poll stays ended,
\* and once the poll has ended without success the flags stay "not checking,
\* not ready" and the poll stays ended, in both cases until the document is
\* replaced; "not checking and not ready" is seen only with 60 failed probes.
C29_ReadinessIsFinal ==
    /\ []((~isCheckingBackend /\ ~isBackendReady) => (pollI = 60 /\ pollPc = "end"))
    /\ [][/\ (isBackendReady /\ ~IsReload) =>
                 /\ isBackendReady' /\ ~isCheckingBackend'
                 /\ pollPc' = "end" /\ pollI' = pollI
          /\ (pollPc = "end" /\ ~isBackendReady /\ ~IsReload) =>
                 /\ ~isBackendReady' /\ ~isCheckingBackend'
                 /\ pollPc' = "end" /\ pollI' = pollI
         ]_vars

\* the backend became ready and a whole turn ran since
C29_Witness ==
    /\ isBackendReady /\ ~isCheckingBackend /\ pollPc = "end"
    /\ \E c \in CallIds : calls[c].pc = "done" /\ calls[c].error = Undefined
    /\ Len(messages) >= 2

\* C21: the first request to /query carries no session id (the field is left
\* out by queryAgent and null in ChatContainer); every request made after an
\* answer with a session_id has arrived carries the session_id of the most
\* recent such answer; an answer without session_id leaves the stored id as
\* it is.
C21_RequestsCarryLatestSessionId ==
    /\ [](sends[1].pc # "idle" => sends[1].session_id \in {Undefined, Null})
    /\ [][\A k \in SendIds :
            (sends[k].pc = "idle" /\ sends'[k].pc = "await") =>
                \A last \in {LastSessionId(received)} :
                    sends'[k].session_id =
                        IF last # Undefined THEN last
                        ELSE IF sends'[k].via = "container" THEN Null ELSE Undefined
         ]_vars
    /\ [][(Len(received') > Len(received) /\ received'[Len(received')] = Undefined)
             => UNCHANGED <<activeSessionId, ccSessionId>>
         ]_vars

\* the first answer carried "s1", the second no session_id, and the third
\* request carries "s1"
C21_Witness ==
    /\ Len(received) >= 2
    /\ received[1] = "s1" /\ received[2] = Undefined
    /\ sends[3].pc = "await" /\ sends[3].session_id = "s1"
    /\ sends[1].session_id \in {Undefined, Null}

\* C30: in frontend-v2 at most one request awaits its answer, and in the
\* shared message list every user message is directly followed by the agent
\* reply or error message of its own request, or is the last message while
\* its request awaits the answer.
C30_OneSendAtATime ==
    /\ Cardinality(AwaitingV2) <= 1
    /\ \A i \in 1..Len(chatMessages) :
          chatMessages[i].role = "user" =>
              IF i < Len(chatMessages)
              THEN /\ chatMessages[i + 1].role = "agent"
                   /\ chatMessages[i + 1].id[1] = chatMessages[i].id[1]
              ELSE chatMessages[i].id[1] \in AwaitingV2

====
